---- MODULE Spec2Model ----
(***************************************************************************)
(* Workflow orchestration core of the KeepUp backend:                      *)
(*   - the memory-fact store (memory/agent_memory.py, models/user.py),     *)
(*   - the Meta-Coordinator synthesis (agents/meta_coordinator.py),        *)
(*   - the four pipelines (workflows/*.py).                                *)
(* Confidences are kept in tenths (0.5 = 5, 0.1 = 1, 1.0 = 10); the clock  *)
(* counts days.  None is written NoExpiry for expires_at and "" for a      *)
(* falsy string / empty payload.                                           *)
(***************************************************************************)
EXTENDS Integers, Sequences, FiniteSets, TLC

VARIABLES
    store,      \* committed rows of user_memories, in insertion order
    now,        \* datetime.utcnow(), in days
    calls,      \* number of persist_from_state calls made so far
    last,       \* the last memory operation that completed
    loaded,     \* what the last load_to_state returned
    runner,     \* concurrent persist_from_state calls, one session each
    lastCommit, \* the concurrent call that committed last
    synth,      \* one call of MetaCoordinator.synthesize_debate
    run,        \* the pipeline run in progress: workflow, position, outcome
    state,      \* the StateBag threaded through the run
    trace,      \* the steps the run has executed, each with its outcome
    bag,        \* a state mapping handed to add_learning_to_state
    agentcall,  \* one call of an agent method: input, position, result
    caller,     \* what the caller of the pipeline run did with its result
    risk,       \* one call of _comprehensive_risk_assessment
    sweep,      \* one run of InterventionMonitor.check_at_risk_users
    chat,       \* ChatAgent: list objects, history, respond calls in flight
    conns,      \* ConnectionManager: active_connections and sessions
    opts        \* the intervention state around the autonomous_action step

memvars == <<store, now, calls, last, loaded>>

racevars == <<runner, lastCommit>>

synthvars == <<synth>>

pipevars == <<run, state, trace, caller>>

stagevars == <<bag>>

agentvars == <<agentcall>>

riskvars == <<risk>>

sweepvars == <<sweep>>

chatvars == <<chat>>

connvars == <<conns>>

optvars == <<opts>>

latervars == <<risk, sweep, chat, conns, opts>>

vars == <<store, now, calls, last, loaded, runner, lastCommit, synth,
          run, state, trace, bag, agentcall, caller, risk, sweep, chat,
          conns, opts>>

-----------------------------------------------------------------------------
(* Bounds *)

MaxCalls == 2       \* persist_from_state calls in one behaviour
MaxUpdates == 2     \* length of one memory_updates list
MaxTime == 1        \* days the clock may advance

MaxRaceCalls == 3   \* concurrent persist_from_state calls in one behaviour
MaxRaceUpdates == 1 \* length of the memory_updates list of a concurrent call
MaxStaged == 2      \* learnings staged in one state mapping
MaxTokens == 5      \* length of a text handed to _parse_json_response
MaxAgentTokens == 2 \* length of a text generated for analyze and challenge
MaxInjuries == 1    \* length of user_profile.past_injuries
MaxExercises == 2   \* length of one workout_plan
MaxResolutions == 2 \* at-risk resolutions found by one sweep
MaxInFlight == 2    \* respond calls suspended at the same time
MaxChatCalls == 3   \* respond calls in one behaviour

(* Program constants *)

ConfMin == 5        \* UserMemory.confidence >= 0.5
ConfBump == 1       \* existing_memory.confidence + 0.1
ConfCap == 10       \* min(1.0, ...)
NoExpiry == 0       \* expires_at = None

Users == {1, 2}

\* The updates a caller may stage: a low-confidence fact, a second content
\* for the same (agent, type), an expiring fact of another agent, an update
\* whose content is empty (falsy) and one whose confidence was never
\* normalised to [0, 1].
UpdateMenu ==
    { [agent_name |-> "A1", learning_type |-> "T1", content |-> "C1",
       confidence |-> 4, expires_after_days |-> 0],
      [agent_name |-> "A1", learning_type |-> "T1", content |-> "C2",
       confidence |-> 9, expires_after_days |-> 0],
      [agent_name |-> "A2", learning_type |-> "T2", content |-> "C1",
       confidence |-> 9, expires_after_days |-> 1],
      [agent_name |-> "A1", learning_type |-> "T1", content |-> "",
       confidence |-> 9, expires_after_days |-> 0],
      [agent_name |-> "A2", learning_type |-> "T1", content |-> "C2",
       confidence |-> 11, expires_after_days |-> 0] }

SeqsUpTo(S, n) == UNION { [1..k -> S] : k \in 0..n }

UpdateLists == SeqsUpTo(UpdateMenu, MaxUpdates)

Min(a, b) == IF a <= b THEN a ELSE b

-----------------------------------------------------------------------------
(* AgentMemory.load_to_state *)

NoFilters == [learning_type |-> "", agent_name |-> ""]

\* the WHERE clause of the query, without the condition on expires_at
LoadConditionNoExpiry(m, user_id, t, filters) ==
    /\ m.user_id = user_id
    /\ m.confidence >= ConfMin
    /\ (filters.learning_type # "" => m.learning_type = filters.learning_type)
    /\ (filters.agent_name # "" => m.agent_name = filters.agent_name)

\* the WHERE clause of the query
LoadCondition(m, user_id, t, filters) ==
    /\ m.user_id = user_id
    /\ m.confidence >= ConfMin
    /\ (m.expires_at = NoExpiry \/ m.expires_at > t)
    /\ (filters.learning_type # "" => m.learning_type = filters.learning_type)
    /\ (filters.agent_name # "" => m.agent_name = filters.agent_name)

\* ORDER BY confidence DESC, updated_at DESC (ties keep insertion order)
OrderedBefore(db, i, j) ==
    \/ db[i].confidence > db[j].confidence
    \/ db[i].confidence = db[j].confidence /\ db[i].updated_at > db[j].updated_at
    \/ db[i].confidence = db[j].confidence /\ db[i].updated_at = db[j].updated_at
       /\ i < j

RECURSIVE OrderBy(_, _)
OrderBy(db, ids) ==
    IF ids = {} THEN <<>>
    ELSE LET first == CHOOSE i \in ids :
                        \A j \in ids \ {i} : OrderedBefore(db, i, j)
         IN  <<first>> \o OrderBy(db, ids \ {first})

memory_dict(m) ==
    [agent_name |-> m.agent_name, learning_type |-> m.learning_type,
     content |-> m.content, confidence |-> m.confidence,
     updated_at |-> m.updated_at]

\* the same, with the by_agent buckets keyed by m.learning_type
load_to_state_keyed_by_type(db, user_id, t, filters) ==
    LET ids == {i \in DOMAIN db : LoadCondition(db[i], user_id, t, filters)}
        memories == OrderBy(db, ids)
        all == [k \in DOMAIN memories |-> memory_dict(db[memories[k]])]
        types == {all[k].learning_type : k \in DOMAIN all}
    IN  [all |-> all,
         by_type |-> [ty \in types |->
                        SelectSeq(all, LAMBDA d : d.learning_type = ty)],
         by_agent |-> [ty \in types |->
                        SelectSeq(all, LAMBDA d : d.learning_type = ty)]]

load_to_state(db, user_id, t, filters) ==
    LET ids == {i \in DOMAIN db : LoadCondition(db[i], user_id, t, filters)}
        memories == OrderBy(db, ids)
        all == [k \in DOMAIN memories |-> memory_dict(db[memories[k]])]
        types == {all[k].learning_type : k \in DOMAIN all}
        agents == {all[k].agent_name : k \in DOMAIN all}
    IN  [all |-> all,
         by_type |-> [ty \in types |->
                        SelectSeq(all, LAMBDA d : d.learning_type = ty)],
         by_agent |-> [ag \in agents |->
                        SelectSeq(all, LAMBDA d : d.agent_name = ag)]]

NoLoad == [all |-> <<>>, by_type |-> <<>>, by_agent |-> <<>>]

\* the filters a caller may pass: none, a learning_type, an agent_name
LoadFilters ==
    {NoFilters, [learning_type |-> "T1", agent_name |-> ""],
     [learning_type |-> "", agent_name |-> "A2"]}

NoCall == [op |-> "none", user_id |-> 0, raised |-> FALSE, filters |-> NoFilters]

-----------------------------------------------------------------------------
(* AgentMemory.persist_from_state *)

\* A session holds the rows it has loaded and changed (upd) and the objects
\* handed to db.add (new); with autoflush=False neither reaches the database
\* before commit, so a query does not see the session's own pending inserts.
EmptySession == [upd |-> <<>>, updIds |-> {}, new |-> <<>>, raised |-> FALSE]

\* select(UserMemory).where(user_id, agent_name, learning_type)
Existing(db, user_id, agent_name, learning_type) ==
    {i \in DOMAIN db : /\ db[i].user_id = user_id
                       /\ db[i].agent_name = agent_name
                       /\ db[i].learning_type = learning_type}

\* the object the session holds for row i: its own changed copy if it has one
SessionObject(sess, db, i) ==
    IF i \in sess.updIds
    THEN sess.upd[CHOOSE k \in DOMAIN sess.upd : sess.upd[k].id = i].row
    ELSE db[i]

SetSessionObject(sess, i, row) ==
    IF i \in sess.updIds
    THEN [sess EXCEPT !.upd = [k \in DOMAIN sess.upd |->
                                 IF sess.upd[k].id = i
                                 THEN [id |-> i, row |-> row]
                                 ELSE sess.upd[k]]]
    ELSE [sess EXCEPT !.upd = Append(sess.upd, [id |-> i, row |-> row]),
                      !.updIds = sess.updIds \cup {i}]

\* min(1.0, existing_memory.confidence + 0.1)
BumpConfidence(c) == Min(ConfCap, c + ConfBump)

\* one iteration of the loop over memory_updates
PersistUpdate(sess, db, user_id, update, t) ==
    IF update.agent_name = "" \/ update.learning_type = "" \/ update.content = ""
    THEN sess
    ELSE LET found == Existing(db, user_id, update.agent_name,
                               update.learning_type)
         IN  IF Cardinality(found) > 1
             THEN [sess EXCEPT !.raised = TRUE]
             ELSE IF found # {}
             THEN LET i == CHOOSE x \in found : TRUE
                      old == SessionObject(sess, db, i)
                  IN  SetSessionObject(sess, i,
                        [old EXCEPT !.confidence = BumpConfidence(old.confidence),
                                    !.content = update.content,
                                    !.updated_at = t])
             ELSE [sess EXCEPT !.new = Append(sess.new,
                     [user_id |-> user_id,
                      agent_name |-> update.agent_name,
                      learning_type |-> update.learning_type,
                      content |-> update.content,
                      confidence |-> update.confidence,
                      expires_at |-> IF update.expires_after_days # 0
                                     THEN t + update.expires_after_days
                                     ELSE NoExpiry,
                      updated_at |-> t])]

\* await db.commit(): UPDATE the changed rows, INSERT the added ones
Commit(db, sess) ==
    [i \in DOMAIN db |-> SessionObject(sess, db, i)] \o sess.new

RECURSIVE PersistLoop(_, _, _, _, _, _)
PersistLoop(sess, db, user_id, memory_updates, k, t) ==
    IF k > Len(memory_updates) \/ sess.raised THEN sess
    ELSE PersistLoop(PersistUpdate(sess, db, user_id, memory_updates[k], t),
                     db, user_id, memory_updates, k + 1, t)

\* the whole call on a fresh session: the rows afterwards, and whether the
\* call raised (MultipleResultsFound) before it reached the commit
persist_from_state(db, user_id, memory_updates, t) ==
    IF memory_updates = <<>> THEN [store |-> db, raised |-> FALSE]
    ELSE LET sess == PersistLoop(EmptySession, db, user_id, memory_updates, 1, t)
         IN  IF sess.raised THEN [store |-> db, raised |-> TRUE]
             ELSE [store |-> Commit(db, sess), raised |-> FALSE]

-----------------------------------------------------------------------------
(* MetaCoordinator.synthesize_debate *)

FDKeys == {"interpreted_goal", "weekly_target", "first_milestone", "reasoning"}

DSKeys == {"goal_agent_position", "failure_agent_position",
           "synthesis_rationale"}

\* A value found under a key of the parsed mapping: absent, null, or a
\* mapping with some keys holding a value (keys) and some holding null.
Absent == [shape |-> "absent", keys |-> {}, nulls |-> {}, placeholder |-> FALSE]

Null == [shape |-> "null", keys |-> {}, nulls |-> {}, placeholder |-> FALSE]

Mapping(keys, nulls) ==
    [shape |-> "dict", keys |-> keys, nulls |-> nulls, placeholder |-> FALSE]

MappingsOver(K) ==
    {Absent, Null} \cup {Mapping(S, {}) : S \in SUBSET K}
                   \cup {Mapping(K \ {k}, {k}) : k \in K}

\* the JSON objects the generation call may come back with
JsonObjects ==
    [error : {FALSE}, final_decision : MappingsOver(FDKeys),
     debate_summary : MappingsOver(DSKeys), confidence : {"absent", "value"}]

\* {"error": "Failed to parse LLM response", "raw_response": response}
Sentinel ==
    [error |-> TRUE, final_decision |-> Absent, debate_summary |-> Absent,
     confidence |-> "absent"]

\* what _call_llm does: it re-raises, or returns text that is a JSON object
\* or is not
Responses ==
    {[kind |-> "raise", obj |-> Sentinel], [kind |-> "garbage", obj |-> Sentinel]}
        \cup {[kind |-> "json", obj |-> o] : o \in JsonObjects}

parse_json_response(response) ==
    IF response.kind = "json" THEN response.obj ELSE Sentinel

\* "Safety check: ensure debate_summary exists with all keys"
DefaultFill(parsed) ==
    IF parsed.debate_summary.shape \in {"absent", "null"}
    THEN [parsed EXCEPT !.debate_summary =
            [shape |-> "dict", keys |-> DSKeys, nulls |-> {},
             placeholder |-> TRUE]]
    ELSE parsed

Raised(exc) == [kind |-> "raise", exc |-> exc, value |-> Sentinel]

Returned(value) == [kind |-> "return", exc |-> "", value |-> value]

\* positional parameters of synthesize_debate besides self
SynthParams == 1

\* the body reads primary_goal, which is neither a parameter nor a global
PrimaryGoalDefined == FALSE

\* nargs: the positional arguments the caller passes; n: len(debate_history)
synthesize_debate(nargs, n, response) ==
    IF nargs # SynthParams THEN Raised("TypeError")
    ELSE IF ~PrimaryGoalDefined THEN Raised("NameError")
    ELSE IF n < 2 THEN Raised("IndexError")
    ELSE IF response.kind = "raise" THEN Raised("LLMError")
    ELSE Returned(DefaultFill(parse_json_response(response)))

HistoryLengths == 0..2

IdleSynth ==
    [pc |-> "idle", nargs |-> 0, n |-> 0,
     response |-> [kind |-> "garbage", obj |-> Sentinel],
     result |-> Raised("")]

-----------------------------------------------------------------------------
(* BaseAgent._parse_json_response on a text.  A text is a sequence of      *)
(* tokens: "{" and "}", "n" (a JSON scalar), "s" (a JSON string literal    *)
(* whose characters include ```), "t" (prose that is not JSON), "j" (the  *)
(* marker ```json) and "f" (the marker ```).  White space is left out:    *)
(* json.loads and strip() ignore it.  An object is written as its braces  *)
(* around its values.                                                      *)

Tokens == {"{", "}", "n", "s", "t", "j", "f"}

Texts == SeqsUpTo(Tokens, MaxTokens)

RECURSIVE IsValue(_), IsValues(_)
\* json.loads(text) succeeds
IsValue(text) ==
    \/ Len(text) = 1 /\ text[1] \in {"n", "s"}
    \/ /\ Len(text) >= 2
       /\ text[1] = "{" /\ text[Len(text)] = "}"
       /\ IsValues(SubSeq(text, 2, Len(text) - 1))

IsValues(text) ==
    \/ text = <<>>
    \/ \E k \in 1..Len(text) :
         IsValue(SubSeq(text, 1, k)) /\ IsValues(SubSeq(text, k + 1, Len(text)))

\* response.replace("```json", "").replace("```", "").strip()
Cleaned(text) ==
    LET kept == SelectSeq(text, LAMBDA c : c \notin {"j", "f"})
    IN  [i \in DOMAIN kept |-> IF kept[i] = "s" THEN "n" ELSE kept[i]]

\* str.find and str.rfind: 0-based, -1 when there is no occurrence
Find(text, c) ==
    IF \E i \in DOMAIN text : text[i] = c
    THEN (CHOOSE i \in DOMAIN text :
            text[i] = c /\ \A j \in 1..(i - 1) : text[j] # c) - 1
    ELSE -1

RFind(text, c) ==
    IF \E i \in DOMAIN text : text[i] = c
    THEN (CHOOSE i \in DOMAIN text :
            text[i] = c /\ \A j \in (i + 1)..Len(text) : text[j] # c) - 1
    ELSE -1

\* text[start:end] for start, end >= 0
Slice(text, start, end) == SubSeq(text, start + 1, end)

Parsed(value) == [error |-> FALSE, value |-> value, raw_response |-> <<>>]

\* {"error": "Failed to parse LLM response", "raw_response": response}
ErrorSentinel(response) ==
    [error |-> TRUE, value |-> <<>>, raw_response |-> response]

parse_json_text(response) ==
    IF IsValue(response) THEN Parsed(response)
    ELSE LET cleaned == Cleaned(response)
             start == Find(cleaned, "{")
             end == RFind(cleaned, "}") + 1
         IN  IF start = -1 \/ end = -1 THEN ErrorSentinel(response)
             ELSE IF IsValue(Slice(cleaned, start, end))
             THEN Parsed(Slice(cleaned, start, end))
             ELSE ErrorSentinel(response)

\* the parsed value is a dict, so that .get() can be called on it
IsMapping(parsed) == parsed.error \/ parsed.value[1] = "{"

-----------------------------------------------------------------------------
(* analyze() of the agents and BaseAgent.challenge.  llm is what _call_llm *)
(* does: it re-raises the failure of the generation call, or returns text. *)

AgentRaised(exc) == [kind |-> "raise", exc |-> exc]

AgentReturned(value) == [kind |-> "return", exc |-> "", value |-> value]

Agents == {"GoalSettingAgent", "FailurePatternAgent"}

ResultKey(agent) ==
    IF agent = "GoalSettingAgent" THEN "goal_analysis" ELSE "failure_risk"

analyze(agent, llm) ==
    IF llm.kind = "raise" THEN AgentRaised("LLMError")
    ELSE LET analysis == parse_json_text(llm.text)
         IN  IF ~IsMapping(analysis) THEN AgentRaised("AttributeError")
             ELSE AgentReturned(
                    [keys |-> {ResultKey(agent), "agent_name",
                               "confidence_score"},
                     analysis |-> analysis])

\* what the parsed object holds under "stance": no such key, null, a number,
\* or a string
StanceValues ==
    {"absent", "null", "number", "support", "Challenge", "conditional",
     "oppose"}

Lower(str) == IF str = "Challenge" THEN "challenge" ELSE str

challenge(llm, stance) ==
    IF llm.kind = "raise" THEN AgentRaised("LLMError")
    ELSE LET parsed == parse_json_text(llm.text)
         IN  IF ~IsMapping(parsed) THEN AgentRaised("AttributeError")
             ELSE IF parsed.error \/ stance = "absent"
             THEN AgentReturned([stance |-> "unknown", raw |-> parsed])
             ELSE IF stance \in {"null", "number"}
             THEN AgentRaised("AttributeError")
             ELSE AgentReturned([stance |-> Lower(stance), raw |-> parsed])

LlmOutcomes ==
    {[kind |-> "raise", text |-> <<>>]}
        \cup {[kind |-> "text", text |-> x] :
                 x \in SeqsUpTo(Tokens, MaxAgentTokens)}

IdleAgent ==
    [pc |-> "idle", fn |-> "none", agent |-> "",
     llm |-> [kind |-> "raise", text |-> <<>>], stance |-> "absent",
     result |-> AgentRaised("")]

-----------------------------------------------------------------------------
(* AgentMemory.add_learning_to_state *)

\* state["memory_updates"]: the key is absent, holds None, or holds a list
Unset(kind) == [kind |-> kind, items |-> <<>>]

ListOf(items) == [kind |-> "list", items |-> items]

\* the same, with the list started afresh at every call
add_learning_to_fresh_list(st, agent_name, learning_type, content, confidence, expires_after_days, t) ==
    [st EXCEPT !.memory_updates =
        ListOf(<<[agent_name |-> agent_name, learning_type |-> learning_type,
                  content |-> content, confidence |-> confidence,
                  expires_after_days |-> expires_after_days,
                  timestamp |-> t]>>)]

add_learning_to_state(st, agent_name, learning_type, content, confidence, expires_after_days, t) ==
    LET initialised == IF st.memory_updates.kind \in {"absent", "none"}
                       THEN <<>> ELSE st.memory_updates.items
    IN  [st EXCEPT !.memory_updates =
           ListOf(Append(initialised,
                   [agent_name |-> agent_name, learning_type |-> learning_type,
                    content |-> content, confidence |-> confidence,
                    expires_after_days |-> expires_after_days,
                    timestamp |-> t]))]

\* state.get("memory_updates", []), as the persist_memory step reads it
StagedUpdates(st) == st.memory_updates.items

NoBag == [user_id |-> 0, memory_updates |-> Unset("absent"), errors |-> <<>>]

-----------------------------------------------------------------------------
(* The pipelines.  A step is the list of what its code does, in order: an  *)
(* awaited call of a collaborator ("call"), an expression over values the  *)
(* step was handed that raises on a None or a wrong type ("eval"), or an    *)
(* assignment to a field of the state ("write").  c names the branch of    *)
(* the step an operation sits in ("" for straight-line code).  guard is    *)
(* the text the step's except clause appends to errors, "" when the step   *)
(* has no try/except.                                                      *)

Call(f) == [k |-> "call", f |-> f, c |-> ""]
CallIf(c, f) == [k |-> "call", f |-> f, c |-> c]
Eval(f) == [k |-> "eval", f |-> f, c |-> ""]
EvalIf(c, f) == [k |-> "eval", f |-> f, c |-> c]
Write(f) == [k |-> "write", f |-> f, c |-> ""]
WriteIf(c, f) == [k |-> "write", f |-> f, c |-> c]

Workflows == {"onboarding", "daily_check", "intervention", "resolution"}

\* the graph _build_graph declares
DeclaredSteps(wf) ==
    CASE wf = "onboarding" ->
           <<"fetch_profile", "load_memory", "goal_setting",
             "failure_analysis", "coordinate", "persist_memory">>
      [] wf = "daily_check" ->
           <<"fetch_profile", "load_memory", "analyze_biometrics",
             "analyze_occupation", "analyze_emotions", "analyze_holistic",
             "detect_interventions", "detect_barriers", "check_schedule",
             "generate_workout", "modify_workout", "generate_tasks",
             "save_results">>
      [] wf = "intervention" ->
           <<"load_memory", "detect_barriers", "assess_motivation",
             "generate_options", "autonomous_action", "finalize",
             "persist_memory">>
      [] wf = "resolution" ->
           <<"fetch_data", "analyze_progress", "detect_risks",
             "decide_action">>

\* the graph run() builds and invokes
RunSteps(wf) ==
    CASE wf = "onboarding" ->
           <<"fetch_profile", "load_memory", "goal_setting",
             "failure_analysis", "coordinate", "persist_memory">>
      [] wf = "daily_check" ->
           <<"fetch_profile", "load_memory", "analyze_biometrics",
             "analyze_occupation", "analyze_emotions",
             "detect_interventions", "detect_barriers", "check_schedule",
             "generate_workout", "modify_workout", "generate_tasks",
             "save_results">>
      [] wf = "intervention" ->
           <<"load_memory", "detect_barriers", "assess_motivation",
             "generate_options", "autonomous_action", "finalize",
             "persist_memory">>
      [] wf = "resolution" ->
           <<"fetch_data", "analyze_progress", "detect_risks",
             "decide_action">>

LoadMemoryNode ==
    [guard |-> "",
     ops |-> <<Call("AgentMemory.load_to_state"), Write("user_memory"),
               Write("memory_updates")>>]

PersistMemoryNode ==
    [guard |-> "", ops |-> <<Call("AgentMemory.persist_from_state")>>]

OnboardingBody(step) ==
    CASE step = "fetch_profile" ->
           [guard |-> "",
            ops |-> <<Call("UserService.get_user_profile"),
                      Write("_user_profile")>>]
      [] step = "load_memory" -> LoadMemoryNode
      [] step = "goal_setting" ->
           [guard |-> "",
            ops |-> <<Call("goal_agent.analyze"), Write("goal_analysis")>>]
      [] step = "failure_analysis" ->
           [guard |-> "",
            ops |-> <<Call("failure_agent.analyze"), Write("failure_risk"),
                      Call("failure_agent.challenge"),
                      Write("failure_agent_challenge")>>]
      [] step = "coordinate" ->
           [guard |-> "",
            ops |-> <<Call("coordinator.synthesize_debate/2"),
                      Write("final_plan"), Write("debate_summary"),
                      Write("safety_adjustments"), Write("confidence_score")>>]
      [] step = "persist_memory" -> PersistMemoryNode

InterventionBody(step) ==
    CASE step = "load_memory" -> LoadMemoryNode
      [] step = "detect_barriers" ->
           [guard |-> "Barrier detection error",
            ops |-> <<Call("barrier_agent.analyze"), Write("detected_barriers"),
                      Write("barrier_categories")>>]
      [] step = "assess_motivation" ->
           [guard |-> "Motivation assessment error",
            ops |-> <<Call("motivation_agent.analyze"),
                      Write("motivation_drop"), Write("motivational_state")>>]
      [] step = "generate_options" ->
           [guard |-> "Option generation error",
            ops |-> <<Eval("in barrier_categories"),
                      CallIf("stress", "stress_agent.analyze"),
                      Write("recommended_actions")>>]
      [] step = "autonomous_action" ->
           [guard |-> "Autonomous action error",
            ops |-> <<Eval("for o in options"),
                      Write("autonomous_actions_taken"),
                      Write("alternative_plans")>>]
      [] step = "finalize" ->
           [guard |-> "Finalization error",
            ops |-> <<Eval("_estimate_impact"), Write("intervention_plan"),
                      Write("timestamp")>>]
      [] step = "persist_memory" -> PersistMemoryNode

ResolutionBody(step) ==
    CASE step = "fetch_data" ->
           [guard |-> "Data fetch error",
            ops |-> <<Call("UserService.get_user_profile"),
                      Eval("int(target.split)"),
                      Write("workouts_target_this_week"),
                      Write("adherence_rate"), Write("_user_profile"),
                      Write("_resolution"),
                      Call("AgentMemory.load_to_state"),
                      Write("user_memory")>>]
      [] step = "analyze_progress" ->
           [guard |-> "Progress analysis error",
            ops |-> <<Call("progress_agent.analyze"),
                      Write("progress_analysis")>>]
      [] step = "detect_risks" ->
           [guard |-> "Risk detection error",
            ops |-> <<Call("failure_agent.analyze"), Write("risk_assessment"),
                      Eval("quit_probability > 0.6"),
                      Write("needs_intervention")>>]
      [] step = "decide_action" ->
           [guard |-> "Decision error",
            ops |-> <<Call("coordinator.synthesize_debate/1"),
                      Write("adjustment_recommendations"),
                      Write("final_decision")>>]

DailyCheckBody(step) ==
    CASE step = "fetch_profile" ->
           [guard |-> "Profile fetch error",
            ops |-> <<Call("UserService.get_user_profile"),
                      Write("_user_profile"), Call("db.execute"),
                      EvalIf("checkin", "checkin.energy_level.value"),
                      Write("checkin_data"), Write("current_date")>>]
      [] step = "load_memory" -> [guard |-> "", ops |-> <<>>]
      [] step = "analyze_biometrics" ->
           [guard |-> "Biometric analysis error",
            ops |-> <<Call("biometric_agent.analyze"),
                      Write("readiness_score"), Write("biometric_analysis")>>]
      [] step = "analyze_occupation" ->
           [guard |-> "Occupation analysis error",
            ops |-> <<Call("occupation_agent.analyze"),
                      Write("occupation_impact")>>]
      [] step = "analyze_emotions" ->
           [guard |-> "Emotional analysis error",
            ops |-> <<CallIf("mood", "emotional_agent.analyze"),
                      WriteIf("mood", "emotional_analysis")>>]
      [] step = "analyze_holistic" ->
           [guard |-> "Holistic analysis error",
            ops |-> <<Call("holistic_agent.analyze"),
                      Write("holistic_analysis"),
                      Eval("shift.get"),
                      WriteIf("should_shift", "_temp_focus_shift"),
                      WriteIf("should_shift", "_focus_shift_reason")>>]
      [] step = "detect_interventions" ->
           [guard |-> "Intervention detection error",
            ops |-> <<CallIf("poor_sleep", "sleep_agent.analyze"),
                      CallIf("high_stress", "stress_agent.analyze"),
                      Write("active_interventions")>>]
      [] step = "detect_barriers" ->
           [guard |-> "Barrier detection error",
            ops |-> <<Call("barrier_agent.analyze"),
                      WriteIf("detected", "active_interventions")>>]
      [] step = "check_schedule" ->
           [guard |-> "Schedule check error",
            ops |-> <<Call("calendar_agent.analyze"),
                      Write("schedule_conflicts")>>]
      [] step = "generate_workout" ->
           [guard |-> "Daily plan generation error",
            ops |-> <<Call("plan_generator.generate"), Write("daily_plan"),
                      Write("morning_briefing"), Write("daily_tasks"),
                      Eval("in daily_plan.get(primary_focus)"),
                      WriteIf("workout", "workout_plan")>>]
      [] step = "modify_workout" ->
           [guard |-> "Workout modification error",
            ops |-> <<CallIf("modify", "workout_mod_agent.analyze"),
                      WriteIf("modify", "workout_plan"),
                      WriteIf("modify", "modifications")>>]
      [] step = "generate_tasks" ->
           [guard |-> "Task generation error",
            ops |-> <<Call("task_agent.analyze"), Write("daily_tasks")>>]
      [] step = "save_results" -> [guard |-> "", ops |-> <<>>]

Body(wf, step) ==
    CASE wf = "onboarding" -> OnboardingBody(step)
      [] wf = "daily_check" -> DailyCheckBody(step)
      [] wf = "intervention" -> InterventionBody(step)
      [] wf = "resolution" -> ResolutionBody(step)

StepNames == UNION {{DeclaredSteps(wf)[i] : i \in DOMAIN DeclaredSteps(wf)} :
                    wf \in Workflows}

WritesOf(body) ==
    {body.ops[j].f : j \in {x \in DOMAIN body.ops : body.ops[x].k = "write"}}

Fields ==
    UNION {UNION {WritesOf(Body(wf, DeclaredSteps(wf)[i])) :
                    i \in DOMAIN DeclaredSteps(wf)} : wf \in Workflows}

\* the branches a step may or may not take, depending on the data
Labels(body) == {body.ops[i].c : i \in DOMAIN body.ops} \ {""}

Executed(body, active) ==
    {i \in DOMAIN body.ops : body.ops[i].c = "" \/ body.ops[i].c \in active}

SynthArgs(f) == IF f = "coordinator.synthesize_debate/2" THEN 2 ELSE 1

IsSynth(f) ==
    f \in {"coordinator.synthesize_debate/1", "coordinator.synthesize_debate/2"}

IsPersist(f) == f = "AgentMemory.persist_from_state"

\* can this operation raise / complete, in the state st over the rows db
MayRaise(op, st, db, t) ==
    CASE op.k = "write" -> FALSE
      [] IsSynth(op.f) ->
           \E r \in Responses :
               synthesize_debate(SynthArgs(op.f), 2, r).kind = "raise"
      [] IsPersist(op.f) -> st.memory_updates # <<>>
      [] OTHER -> TRUE

MayReturn(op, st, db, t) ==
    CASE op.k = "write" -> TRUE
      [] IsSynth(op.f) ->
           \E r \in Responses :
               synthesize_debate(SynthArgs(op.f), 2, r).kind = "return"
      [] IsPersist(op.f) ->
           ~persist_from_state(db, st.user_id, st.memory_updates, t).raised
      [] OTHER -> TRUE

\* fp = 0: the step runs to its return; fp = i: operation i raises
ValidFailPoint(body, active, fp, st, db, t) ==
    LET ex == Executed(body, active)
    IN  /\ fp # 0 => fp \in ex /\ MayRaise(body.ops[fp], st, db, t)
        /\ \A j \in ex : (fp = 0 \/ j < fp) => MayReturn(body.ops[j], st, db, t)

\* the same, with every step storing the profile again
WrittenWithProfile(body, active, fp) ==
    {"_user_profile"} \cup
    {body.ops[i].f : i \in {x \in Executed(body, active) :
                              /\ body.ops[x].k = "write"
                              /\ (fp = 0 \/ x < fp)}}

\* the assignments the step has made when it returns or raises at fp
Written(body, active, fp) ==
    {body.ops[i].f : i \in {x \in Executed(body, active) :
                              /\ body.ops[x].k = "write"
                              /\ (fp = 0 \/ x < fp)}}

\* how many calls of f the step has completed when it returns or raises
Completed(body, active, fp, f) ==
    Cardinality({i \in Executed(body, active) :
                   /\ body.ops[i].k = "call" /\ body.ops[i].f = f
                   /\ (fp = 0 \/ i < fp)})

PersistDone(body, active, fp) ==
    \E i \in Executed(body, active) :
        IsPersist(body.ops[i].f) /\ (fp = 0 \/ i < fp)

\* errors = []; errors.append(...); state["errors"] = errors
AppendErrorToFresh(errors, msg) == <<msg>>

\* errors = state.get("errors") or []; errors.append(...); state["errors"] = errors
AppendError(errors, msg) == Append(errors, msg)

Outcome(body, fp) ==
    IF fp = 0 THEN "ok" ELSE IF body.guard # "" THEN "caught" ELSE "raised"

\* one node of the graph, on the state st
StepEffect(body, active, fp, st, k, db, t) ==
    LET W == Written(body, active, fp)
    IN  [st EXCEPT
           !.written = [f \in Fields |-> IF f \in W THEN k ELSE st.written[f]],
           !.errors = IF Outcome(body, fp) = "caught"
                      THEN AppendError(st.errors, body.guard) ELSE st.errors,
           !.memory_updates = IF "memory_updates" \in W THEN <<>>
                              ELSE st.memory_updates,
           !.user_memory = IF "user_memory" \in W
                           THEN load_to_state(db, st.user_id, t, NoFilters)
                           ELSE st.user_memory]

InitialErrors == {<<>>, <<"earlier error">>}

\* memory_updates as the caller passes it: empty, or one staged learning
InitialUpdates ==
    {<<>>, <<[agent_name |-> "A1", learning_type |-> "T1", content |-> "C1",
              confidence |-> 9, expires_after_days |-> 0]>>}

NoRun == [status |-> "idle", wf |-> "", pc |-> 0, init_errors |-> <<>>]

NoState ==
    [user_id |-> 0, written |-> [f \in Fields |-> 0], errors |-> <<>>,
     memory_updates |-> <<>>, user_memory |-> NoLoad]

-----------------------------------------------------------------------------
(* The callers of the pipelines: what each does with the outcome of run()  *)

CallerOf(wf) ==
    CASE wf = "onboarding" -> "start_onboarding"
      [] wf = "daily_check" -> "get_daily_plan"
      [] wf = "intervention" -> "InterventionMonitor._trigger_intervention"
      [] wf = "resolution" -> "ResolutionService.create_resolution"

\* the callers that test result.get("errors") before they use the result
ChecksErrors(wf) == wf \in {"daily_check", "intervention", "resolution"}

\* what the caller applies of a result it takes as a success
Applies(wf) ==
    CASE wf = "onboarding" ->
           {"onboarding_completed", "resolution_created", "plan_returned"}
      [] wf = "daily_check" -> {"plan_returned"}
      [] wf = "intervention" -> {"resolution_updated", "notification_sent"}
      [] wf = "resolution" -> {"resolution_created"}

CallerDid(reported, applied) == [reported |-> reported, applied |-> applied]

NoCaller == CallerDid(FALSE, {})

\* the same, with no caller looking at the errors of the final state
HandleUnchecked(wf, status, errors, later) ==
    IF status = "raised" THEN CallerDid(TRUE, {})
    ELSE IF later = "fails" THEN CallerDid(TRUE, {})
    ELSE CallerDid(FALSE, Applies(wf))

\* status: run() returned or raised; errors: the errors of the final
\* state; later: whether a later operation of the caller (a confidence
\* check, a commit) fails
Handle(wf, status, errors, later) ==
    IF status = "raised" THEN CallerDid(TRUE, {})
    ELSE IF ChecksErrors(wf) /\ errors # <<>> THEN CallerDid(TRUE, {})
    ELSE IF later = "fails" THEN CallerDid(TRUE, {})
    ELSE CallerDid(FALSE, Applies(wf))

CallerOutcomes(wf, status, errors) ==
    IF status = "running" THEN {NoCaller}
    ELSE {Handle(wf, status, errors, later) : later \in {"ok", "fails"}}

-----------------------------------------------------------------------------
(* WorkoutModificationAgent._comprehensive_risk_assessment.  Severities    *)
(* are kept in tenths; a score is the fraction sum / count, not reduced.   *)

Frac(num, den) == [num |-> num, den |-> den]

FracEq(a, b) == a.num * b.den = b.num * a.den

FracPositive(a) == a.num * a.den > 0

RiskFloor == Frac(1, 1)     \* avg_severity = 0.1

NoAge == -1                 \* users.age is NULL: user_profile["age"] is None

HIGH_RISK_EXERCISES ==
    {"barbell back squat", "deadlift", "overhead press", "clean and jerk",
     "snatch", "box jumps"}

conflict_map ==
    [knee |-> {"squat", "lunge", "leg press", "jump"},
     shoulder |-> {"overhead press", "bench press", "pull-up", "row"},
     back |-> {"deadlift", "squat", "row", "hyperextension"},
     ankle |-> {"jump", "run", "calf raise"},
     wrist |-> {"push-up", "plank", "overhead press"}]

\* the exercises of a plan, by lower-cased name
ExerciseMenu == {"barbell back squat", "lunge", "bicep curl"}

\* the movement names that occur in an exercise name as a substring
Substrings(exercise_name) ==
    CASE exercise_name = "barbell back squat" -> {"barbell back squat", "squat"}
      [] exercise_name = "lunge" -> {"lunge"}
      [] OTHER -> {}

InjuryMenu == {"knee", "back"}

_exercise_conflicts_with_injury(exercise, injury) ==
    IF injury \in DOMAIN conflict_map
    THEN conflict_map[injury] \cap Substrings(exercise) # {}
    ELSE FALSE

Factor(type, severity) == [type |-> type, severity |-> severity]

RECURSIVE SumSeverity(_)
SumSeverity(risks) ==
    IF risks = <<>> THEN 0
    ELSE risks[1].severity + SumSeverity(Tail(risks))

\* [f(x) for x in xs if p(x)]
Comprehension(xs, p(_), f(_)) ==
    [i \in DOMAIN SelectSeq(xs, p) |-> f(SelectSeq(xs, p)[i])]

user_risks(user_profile) ==
    Comprehension(user_profile.past_injuries, LAMBDA i : TRUE,
                  LAMBDA i : Factor("injury_history", 7))
      \o (IF user_profile.age > 50 THEN <<Factor("age", 5)>>
          ELSE IF user_profile.age < 20 THEN <<Factor("age", 3)>> ELSE <<>>)
      \o (IF user_profile.fitness_level = "beginner"
          THEN <<Factor("fitness_level", 6)>> ELSE <<>>)

context_risks(context) ==
    (IF context.sleep_quality <= 2 THEN <<Factor("sleep", 8)>>
     ELSE IF context.sleep_quality = 3 THEN <<Factor("sleep", 4)>> ELSE <<>>)
      \o (IF context.stress_level = "high"
          THEN <<Factor("stress", 7)>> ELSE <<>>)
      \o (IF context.days_since_last_workout > 7
          THEN <<Factor("detraining", 6)>> ELSE <<>>)

exercise_risks(workout_plan) ==
    Comprehension(workout_plan,
                  LAMBDA e : HIGH_RISK_EXERCISES \cap Substrings(e) # {},
                  LAMBDA e : Factor("high_risk_movement", 8))

RECURSIVE interaction_risks(_, _)
interaction_risks(workout_plan, past_injuries) ==
    IF workout_plan = <<>> THEN <<>>
    ELSE Comprehension(past_injuries,
             LAMBDA i : _exercise_conflicts_with_injury(workout_plan[1], i),
             LAMBDA i : Factor("injury_conflict", 9))
           \o interaction_risks(Tail(workout_plan), past_injuries)

RiskRaised(exc) == [kind |-> "raise", exc |-> exc]

RiskReturned(value) == [kind |-> "return", value |-> value]

\* the same, with the interaction risks left out of the score and the count
risk_assessment_without_interactions(user_profile, workout_plan, context) ==
    IF user_profile.age = NoAge THEN RiskRaised("TypeError")
    ELSE LET u == user_risks(user_profile)
             c == context_risks(context)
             e == exercise_risks(workout_plan)
             x == interaction_risks(workout_plan, user_profile.past_injuries)
             all_risks == u \o c \o e
         IN  RiskReturned(
               [user_risks |-> u, context_risks |-> c, exercise_risks |-> e,
                interaction_risks |-> x,
                overall_risk_score |->
                    IF all_risks # <<>>
                    THEN Frac(SumSeverity(all_risks), Len(all_risks))
                    ELSE RiskFloor,
                total_risk_factors |-> Len(all_risks)])

\* "age > 50" on a None age raises TypeError before anything is returned
_comprehensive_risk_assessment(user_profile, workout_plan, context) ==
    IF user_profile.age = NoAge THEN RiskRaised("TypeError")
    ELSE LET u == user_risks(user_profile)
             c == context_risks(context)
             e == exercise_risks(workout_plan)
             x == interaction_risks(workout_plan, user_profile.past_injuries)
             all_risks == u \o c \o e \o x
         IN  RiskReturned(
               [user_risks |-> u, context_risks |-> c, exercise_risks |-> e,
                interaction_risks |-> x,
                overall_risk_score |->
                    IF all_risks # <<>>
                    THEN Frac(SumSeverity(all_risks), Len(all_risks))
                    ELSE RiskFloor,
                total_risk_factors |-> Len(all_risks)])

\* what a caller may hand to the assessment
Ages == {NoAge, 15, 30, 60}

UserProfiles ==
    [past_injuries : SeqsUpTo(InjuryMenu, MaxInjuries), age : Ages,
     fitness_level : {"beginner", "advanced"}]

Contexts ==
    [sleep_quality : {2, 3, 4}, stress_level : {"high", "low"},
     days_since_last_workout : {1, 8}]

WorkoutPlans == SeqsUpTo(ExerciseMenu, MaxExercises)

IdleRisk ==
    [pc |-> "idle",
     user_profile |-> [past_injuries |-> <<>>, age |-> 30,
                       fitness_level |-> "advanced"],
     workout_plan |-> <<>>,
     context |-> [sleep_quality |-> 4, stress_level |-> "low",
                  days_since_last_workout |-> 1],
     result |-> RiskRaised("")]

-----------------------------------------------------------------------------
(* InterventionMonitor: one sweep over the at-risk resolutions.  What can  *)
(* go wrong while one resolution is handled is drawn per resolution.       *)

Scenarios ==
    {"ok",                  \* the pipeline returns without errors
     "bad_counts",          \* workouts_completed is None: max(0, 3 - None)
     "pipeline_raises",     \* workflow.run raises
     "pipeline_errors",     \* workflow.run returns a state with errors
     "commit_fails",        \* db.commit raises
     "notification_fails"}  \* send_intervention_notification raises

\* the operations of the method body, in order; the last one sits in a
\* try/except of its own
TriggerOps ==
    <<"missed_workouts", "workflow.run", "db.commit",
      "send_intervention_notification">>

\* the operation that raises in a scenario, 0 when none does
FailingOp(scenario) ==
    CASE scenario = "bad_counts" -> 1
      [] scenario = "pipeline_raises" -> 2
      [] scenario = "commit_fails" -> 3
      [] scenario = "notification_fails" -> 4
      [] OTHER -> 0

\* the operations that complete: those before the one that raises, and
\* none after the early return on a state with errors
Reached(scenario, op) ==
    /\ FailingOp(scenario) = 0 \/ op < FailingOp(scenario)
    /\ scenario = "pipeline_errors" => op <= 2

\* raised: an exception leaves the method; logged: an error or a warning
\* was logged; ran: the pipeline was invoked; committed: the resolution
\* update was committed; notified: the notification was sent
TriggerBody(scenario, guarded) ==
    [raised |-> ~guarded /\ FailingOp(scenario) \in {1, 2, 3},
     logged |-> scenario = "pipeline_errors"
                  \/ FailingOp(scenario) = 4
                  \/ (guarded /\ FailingOp(scenario) # 0),
     ran |-> Reached(scenario, 1),
     committed |-> Reached(scenario, 3),
     notified |-> Reached(scenario, 4)]

\* the same, without the try/except around the body
_trigger_intervention_unguarded(scenario) == TriggerBody(scenario, FALSE)

_trigger_intervention(scenario) == TriggerBody(scenario, TRUE)

\* the at-risk resolutions the query returns, each with its scenario
ResolutionLists == SeqsUpTo(Scenarios, MaxResolutions)

IdleSweep ==
    [pc |-> "idle", query_fails |-> FALSE, at_risk |-> <<>>, i |-> 0,
     processed |-> <<>>]

-----------------------------------------------------------------------------
(* ChatAgent.respond.  self.history maps a user to a list object; a call   *)
(* keeps a reference to the list it fetched across the awaited analysis,   *)
(* and "self.history[user_id] = user_history[-20:]" binds the user to a    *)
(* new list.  lists maps the identity of each list still referenced to its *)
(* content; 0 stands for no list.                                          *)

KeepLast == 20      \* user_history[-20:]

ChatUsers == {"u1", "u2"}

Slots == 1..MaxInFlight

Msg(role, id) == [role |-> role, id |-> id]

\* xs[-n:]
LastN(xs, n) ==
    IF Len(xs) <= n THEN xs ELSE SubSeq(xs, Len(xs) - n + 1, Len(xs))

NoTurn == [pc |-> "idle", user_id |-> "", ref |-> 0, id |-> 0]

\* the lists some name still refers to
Live(c) ==
    ({c.history[u] : u \in ChatUsers} \cup {c.call[k].ref : k \in Slots}) \ {0}

Collect(c) == [c EXCEPT !.lists = [i \in Live(c) |-> c.lists[i]]]

Fresh(c) ==
    CHOOSE i \in 1..(Cardinality(DOMAIN c.lists) + 1) :
        /\ i \notin DOMAIN c.lists
        /\ \A j \in 1..(i - 1) : j \in DOMAIN c.lists

\* if user_id not in self.history: self.history[user_id] = []
_get_conversation_history(c, user_id) ==
    IF c.history[user_id] # 0 THEN c
    ELSE [c EXCEPT !.lists = (Fresh(c) :> <<>>) @@ c.lists,
                   !.history[user_id] = Fresh(c)]

\* respond up to "await self.analyze(input_data)"
respond_begin(c, k, user_id, id) ==
    LET c1 == _get_conversation_history(c, user_id)
        ref == c1.history[user_id]
    IN  [c1 EXCEPT
           !.lists[ref] = Append(c1.lists[ref], Msg("user", id)),
           !.call[k] = [pc |-> "awaiting", user_id |-> user_id,
                        ref |-> ref, id |-> id],
           !.said[user_id] = Append(c1.said[user_id], Msg("user", id)),
           !.n = c1.n + 1]

\* respond from the return of the analysis to its own return
respond_end(c, k) ==
    LET t == c.call[k]
        whole == Append(c.lists[t.ref], Msg("assistant", t.id))
        c1 == [c EXCEPT !.lists[t.ref] = whole]
        new == Fresh(c1)
    IN  Collect([c1 EXCEPT
           !.lists = (new :> LastN(whole, KeepLast)) @@ c1.lists,
           !.history[t.user_id] = new,
           !.call[k] = [t EXCEPT !.pc = "done", !.ref = 0],
           !.said[t.user_id] = Append(c1.said[t.user_id],
                                      Msg("assistant", t.id)),
           !.completed = c1.completed \cup {t.id}])

\* the analysis raises (or its result has no agent_response): respond
\* raises with the user message already appended
respond_raise(c, k) ==
    Collect([c EXCEPT !.call[k] = [c.call[k] EXCEPT !.pc = "raised",
                                                    !.ref = 0]])

\* the history a user has after n earlier messages
Prefill(n) ==
    [i \in 1..n |-> Msg(IF i % 2 = 1 THEN "user" ELSE "assistant", i - n - 1)]

InitialLengths == {0, KeepLast}

IdleChat ==
    [lists |-> <<>>, history |-> [u \in ChatUsers |-> 0],
     call |-> [k \in Slots |-> NoTurn],
     said |-> [u \in ChatUsers |-> <<>>], completed |-> {}, n |-> 0]

-----------------------------------------------------------------------------
(* InterventionWorkflow: the generate_options and autonomous_action steps. *)
(* A field of the state is None, as the monitor initialises it, or a list. *)

NoneValue == [kind |-> "none", items |-> <<>>]

ListValue(items) == [kind |-> "list", items |-> items]

Option(type, action, autonomous) ==
    [type |-> type, action |-> action, autonomous |-> autonomous]

\* the options _generate_options_node builds, in the order it appends them
GeneratedOptions(st) ==
    (IF "time_constraint" \in st.barrier_categories
     THEN <<Option("reduce_difficulty", "Reduce workout duration by 40%", TRUE)>>
     ELSE <<>>)
      \o (IF "monotony" \in st.barrier_categories
          THEN <<Option("variety_injection",
                        "Switch to different exercise modality", FALSE)>>
          ELSE <<>>)
      \o (IF st.days_inactive = 0 /\ st.missed_workouts > 2
          THEN <<Option("mandatory_rest", "Force 2-day rest period", TRUE)>>
          ELSE <<>>)
      \o (IF st.stress
          THEN <<Option("stress_management", "recommendation", FALSE)>>
          ELSE <<>>)

\* the step: the stress agent may raise, and the except clause then leaves
\* recommended_actions as it was
_generate_options_node(st) ==
    IF st.stress /\ st.stress_agent_raises
    THEN [st EXCEPT !.errors = AppendError(st.errors, "Option generation error")]
    ELSE [st EXCEPT !.recommended_actions = ListValue(GeneratedOptions(st))]

IsAutonomous(o) == o.autonomous

IsSuggestion(o) == ~o.autonomous

ActedOn(o) == o.type \in {"reduce_difficulty", "mandatory_rest"}

\* the entry appended to actions_taken for an option (its rationale and
\* timestamp fields decide nothing and are left out)
ActionTaken(o) ==
    IF o.type = "reduce_difficulty"
    THEN [action |-> o.action, type |-> "protective_modification"]
    ELSE [action |-> "Blocked workouts for 48 hours", type |-> "protective_block"]

\* the same, with every option handed on as a suggestion
autonomous_action_suggesting_all(st) ==
    IF st.recommended_actions.kind = "none"
    THEN [st EXCEPT !.errors = AppendError(st.errors, "Autonomous action error")]
    ELSE LET options == st.recommended_actions.items
             autonomous_actions == SelectSeq(options, IsAutonomous)
             acted == SelectSeq(autonomous_actions, ActedOn)
         IN  [st EXCEPT
                !.autonomous_actions_taken =
                    ListValue([i \in DOMAIN acted |-> ActionTaken(acted[i])]),
                !.alternative_plans = ListValue(options)]

\* "for o in options" on None raises TypeError, which the step catches
_autonomous_action_node(st) ==
    IF st.recommended_actions.kind = "none"
    THEN [st EXCEPT !.errors = AppendError(st.errors, "Autonomous action error")]
    ELSE LET options == st.recommended_actions.items
             autonomous_actions == SelectSeq(options, IsAutonomous)
             acted == SelectSeq(autonomous_actions, ActedOn)
         IN  [st EXCEPT
                !.autonomous_actions_taken =
                    ListValue([i \in DOMAIN acted |-> ActionTaken(acted[i])]),
                !.alternative_plans =
                    ListValue(SelectSeq(options, IsSuggestion))]

IdleOptions ==
    [pc |-> "idle", barrier_categories |-> {}, days_inactive |-> 0,
     missed_workouts |-> 0, stress |-> FALSE, stress_agent_raises |-> FALSE,
     recommended_actions |-> NoneValue,
     autonomous_actions_taken |-> NoneValue,
     alternative_plans |-> NoneValue, errors |-> <<>>]

-----------------------------------------------------------------------------
(* ConnectionManager: the registry of websocket sessions.                  *)
(* active_connections maps a user id to its set of sids, sessions maps a   *)
(* sid to the user id of its session data; both are dicts, so functions on *)
(* the keys present.                                                       *)

Sids == {"s1", "s2", "s3"}

ConnUsers == {1, 2}

NoConnections == [active_connections |-> <<>>, sessions |-> <<>>]

add_connection(c, sid, user_id) ==
    LET ac == c.active_connections
        present == IF user_id \in DOMAIN ac THEN ac[user_id] ELSE {}
    IN  [active_connections |->
             [u \in DOMAIN ac \cup {user_id} |->
                 IF u = user_id THEN present \cup {sid} ELSE ac[u]],
         sessions |->
             [s \in DOMAIN c.sessions \cup {sid} |->
                 IF s = sid THEN user_id ELSE c.sessions[s]]]

remove_connection(c, sid) ==
    IF sid \notin DOMAIN c.sessions
    THEN c
    ELSE LET ac == c.active_connections
             user_id == c.sessions[sid]
             left == ac[user_id] \ {sid}
             discarded ==
                 IF user_id \notin DOMAIN ac
                 THEN ac
                 ELSE IF left = {}
                      THEN [u \in DOMAIN ac \ {user_id} |-> ac[u]]
                      ELSE [ac EXCEPT ![user_id] = left]
         IN  [active_connections |-> discarded,
              sessions |-> [s \in DOMAIN c.sessions \ {sid} |-> c.sessions[s]]]

get_user_sessions(c, user_id) ==
    IF user_id \in DOMAIN c.active_connections
    THEN c.active_connections[user_id]
    ELSE {}

is_user_online(c, user_id) == user_id \in DOMAIN c.active_connections

-----------------------------------------------------------------------------
(* The memory store driven through its two entry points *)

Runners == {1, 2}

IdleRunner ==
    [pc |-> "idle", user_id |-> 0, memory_updates |-> <<>>, k |-> 1,
     sess |-> EmptySession]

InitRace ==
    /\ runner = [r \in Runners |-> IdleRunner]
    /\ lastCommit = 0

InitSynth == synth = IdleSynth

InitPipe ==
    /\ run = NoRun
    /\ state = NoState
    /\ trace = <<>>
    /\ caller = NoCaller

InitStage == bag = NoBag

InitAgent == agentcall = IdleAgent

InitLater ==
    /\ risk = IdleRisk
    /\ sweep = IdleSweep
    /\ chat = IdleChat
    /\ conns = NoConnections
    /\ opts = IdleOptions

\* nothing has run: the store is empty and no call is in progress
InitStore ==
    /\ store = <<>> /\ now = 0 /\ calls = 0
    /\ last = NoCall
    /\ loaded = NoLoad

InitMem ==
    /\ InitRace
    /\ InitSynth
    /\ InitPipe
    /\ InitStage
    /\ InitAgent
    /\ InitLater
    /\ store = <<>>
    /\ now = 0
    /\ calls = 0
    /\ last = NoCall
    /\ loaded = NoLoad

PersistFromState(user_id, memory_updates) ==
    /\ calls < MaxCalls
    /\ LET r == persist_from_state(store, user_id, memory_updates, now)
       IN  /\ store' = r.store
           /\ last' = [op |-> "persist", user_id |-> user_id,
                       raised |-> r.raised, filters |-> NoFilters]
    /\ calls' = calls + 1
    /\ loaded' = NoLoad
    /\ UNCHANGED <<now, racevars, synthvars, pipevars,
                 stagevars, agentvars, latervars>>

LoadToState(user_id, filters) ==
    /\ loaded' = load_to_state(store, user_id, now, filters)
    /\ last' = [op |-> "load", user_id |-> user_id, raised |-> FALSE,
                filters |-> filters]
    /\ UNCHANGED <<store, now, calls, racevars, synthvars, pipevars,
                 stagevars, agentvars, latervars>>

Tick ==
    /\ now < MaxTime
    /\ now' = now + 1
    /\ last' = NoCall
    /\ loaded' = NoLoad
    /\ UNCHANGED <<store, calls, racevars, synthvars, pipevars,
                 stagevars, agentvars, latervars>>

NextMem ==
    \/ \E u \in Users, ups \in UpdateLists : PersistFromState(u, ups)
    \/ \E u \in Users, f \in LoadFilters : LoadToState(u, f)
    \/ Tick

SpecMem == InitMem /\ [][NextMem]_vars

-----------------------------------------------------------------------------
(* Two sessions calling persist_from_state concurrently.  A call suspends   *)
(* at each awaited query and at the awaited commit; the staging between    *)
(* two awaits runs without interruption.                                   *)

RaceLists == SeqsUpTo(UpdateMenu, MaxRaceUpdates)

\* the call is entered: "if not memory_updates: return"
RaceBegin(r, user_id, memory_updates) ==
    /\ calls < MaxRaceCalls
    /\ runner[r].pc \in {"idle", "done", "raised"}
    /\ runner' = [runner EXCEPT ![r] =
                    [pc |-> IF memory_updates = <<>> THEN "done" ELSE "loop",
                     user_id |-> user_id, memory_updates |-> memory_updates,
                     k |-> 1, sess |-> EmptySession]]
    /\ calls' = calls + 1
    /\ lastCommit' = IF lastCommit = r THEN 0 ELSE lastCommit
    /\ UNCHANGED <<store, now, last, loaded, synthvars, pipevars,
                 stagevars, agentvars, latervars>>

\* one loop iteration: the awaited existence query and the staging after it
RaceSelect(r) ==
    /\ runner[r].pc = "loop"
    /\ LET me == runner[r]
           s2 == PersistUpdate(me.sess, store, me.user_id,
                               me.memory_updates[me.k], now)
       IN  runner' = [runner EXCEPT ![r] =
                        [me EXCEPT !.sess = s2,
                                   !.k = me.k + 1,
                                   !.pc = IF s2.raised THEN "raised"
                                          ELSE IF me.k = Len(me.memory_updates)
                                          THEN "commit" ELSE "loop"]]
    /\ UNCHANGED <<store, now, calls, last, loaded, lastCommit, synthvars, pipevars,
                 stagevars, agentvars, latervars>>

\* await db.commit()
RaceCommit(r) ==
    /\ runner[r].pc = "commit"
    /\ store' = Commit(store, runner[r].sess)
    /\ runner' = [runner EXCEPT ![r].pc = "done"]
    /\ lastCommit' = r
    /\ UNCHANGED <<now, calls, last, loaded, synthvars, pipevars,
                 stagevars, agentvars, latervars>>

NextRace ==
    \/ \E r \in Runners, u \in Users, ups \in RaceLists : RaceBegin(r, u, ups)
    \/ \E r \in Runners : RaceSelect(r)
    \/ \E r \in Runners : RaceCommit(r)

SpecRace == InitMem /\ [][NextRace]_vars

-----------------------------------------------------------------------------
(* Learnings staged in a state mapping by add_learning_to_state and flushed *)
(* by the persist_from_state call of the persist_memory step.              *)

\* the learnings an agent may stage
StageMenu == {u \in UpdateMenu : u.agent_name = "A1"}

InitStageInputs ==
    /\ InitLater
    /\ InitRace
    /\ InitSynth
    /\ InitPipe
    /\ InitAgent
    /\ store = <<>> /\ now = 0 /\ calls = 0
    /\ last = NoCall
    /\ loaded = NoLoad
    /\ \E u \in Users, errs \in InitialErrors,
          mu \in {Unset("absent"), Unset("none"), ListOf(<<>>)} :
         bag = [user_id |-> u, memory_updates |-> mu, errors |-> errs]

AddLearningToState(x) ==
    /\ Len(StagedUpdates(bag)) < MaxStaged
    /\ bag' = add_learning_to_state(bag, x.agent_name, x.learning_type,
                                    x.content, x.confidence,
                                    x.expires_after_days, now)
    /\ UNCHANGED <<memvars, racevars, synthvars, pipevars, agentvars,
                 latervars>>

NextStage ==
    \/ \E x \in StageMenu : AddLearningToState(x)
    \/ PersistFromState(bag.user_id, StagedUpdates(bag))
    \/ \E u \in Users, f \in LoadFilters : LoadToState(u, f)

SpecStage == InitStageInputs /\ [][NextStage]_vars

-----------------------------------------------------------------------------
(* The agent methods applied to every outcome of the generation call *)

InitAgentInputs ==
    /\ InitLater
    /\ InitRace
    /\ InitSynth
    /\ InitPipe
    /\ InitStage
    /\ store = <<>> /\ now = 0 /\ calls = 0
    /\ last = NoCall
    /\ loaded = NoLoad
    /\ \/ \E x \in Texts :
            agentcall = [IdleAgent EXCEPT !.pc = "call", !.fn = "parse",
                                          !.llm = [kind |-> "text", text |-> x]]
       \/ \E a \in Agents, o \in LlmOutcomes :
            agentcall = [IdleAgent EXCEPT !.pc = "call", !.fn = "analyze",
                                          !.agent = a, !.llm = o]
       \/ \E o \in LlmOutcomes, st \in StanceValues :
            agentcall = [IdleAgent EXCEPT !.pc = "call", !.fn = "challenge",
                                          !.llm = o, !.stance = st]

ParseJsonResponse ==
    /\ agentcall.pc = "call" /\ agentcall.fn = "parse"
    /\ agentcall' = [agentcall EXCEPT
                       !.pc = "done",
                       !.result = AgentReturned(
                                    parse_json_text(agentcall.llm.text))]
    /\ UNCHANGED <<memvars, racevars, synthvars, pipevars, stagevars,
                 latervars>>

Analyze ==
    /\ agentcall.pc = "call" /\ agentcall.fn = "analyze"
    /\ agentcall' = [agentcall EXCEPT
                       !.pc = "done",
                       !.result = analyze(agentcall.agent, agentcall.llm)]
    /\ UNCHANGED <<memvars, racevars, synthvars, pipevars, stagevars,
                 latervars>>

Challenge ==
    /\ agentcall.pc = "call" /\ agentcall.fn = "challenge"
    /\ agentcall' = [agentcall EXCEPT
                       !.pc = "done",
                       !.result = challenge(agentcall.llm, agentcall.stance)]
    /\ UNCHANGED <<memvars, racevars, synthvars, pipevars, stagevars,
                 latervars>>

NextAgent == ParseJsonResponse \/ Analyze \/ Challenge

SpecAgent == InitAgentInputs /\ [][NextAgent]_vars

-----------------------------------------------------------------------------
(* synthesize_debate applied to every call shape and generation outcome *)

InitSynthInputs ==
    /\ InitLater
    /\ InitRace
    /\ InitPipe
    /\ InitStage
    /\ InitAgent
    /\ store = <<>> /\ now = 0 /\ calls = 0
    /\ last = NoCall
    /\ loaded = NoLoad
    /\ \E nargs \in {1, 2}, n \in HistoryLengths, r \in Responses :
         synth = [pc |-> "call", nargs |-> nargs, n |-> n, response |-> r,
                  result |-> Raised("")]

SynthesizeDebate ==
    /\ synth.pc = "call"
    /\ synth' = [synth EXCEPT
                   !.pc = "done",
                   !.result = synthesize_debate(synth.nargs, synth.n,
                                                synth.response)]
    /\ UNCHANGED <<memvars, racevars, pipevars,
                 stagevars, agentvars, latervars>>

SpecSynth == InitSynthInputs /\ [][SynthesizeDebate]_vars

-----------------------------------------------------------------------------
(* One pipeline run at a time: graph.ainvoke(initial_state) runs the nodes *)
(* in edge order and lets a node's exception escape run().                 *)

Init == InitMem

StartRun(wf, user_id, errors, memory_updates) ==
    /\ run.status \in {"idle", "returned", "raised"}
    /\ run' = [status |-> "running", wf |-> wf, pc |-> 1,
               init_errors |-> errors]
    /\ state' = [NoState EXCEPT !.user_id = user_id, !.errors = errors,
                                !.memory_updates = memory_updates]
    /\ trace' = <<>>
    /\ caller' = NoCaller
    /\ UNCHANGED <<memvars, racevars, synthvars,
                 stagevars, agentvars, latervars>>

Step ==
    /\ run.status = "running"
    /\ LET step == RunSteps(run.wf)[run.pc]
           body == Body(run.wf, step)
       IN  \E active \in SUBSET Labels(body), fp \in 0..Len(body.ops) :
             /\ ValidFailPoint(body, active, fp, state, store, now)
             /\ state' = StepEffect(body, active, fp, state, run.pc, store, now)
             /\ store' = IF PersistDone(body, active, fp)
                         THEN persist_from_state(store, state.user_id,
                                                 state.memory_updates, now).store
                         ELSE store
             /\ trace' = Append(trace,
                  [step |-> step, outcome |-> Outcome(body, fp),
                   reads |-> Completed(body, active, fp,
                                       "AgentMemory.load_to_state"),
                   writes |-> Completed(body, active, fp,
                                        "AgentMemory.persist_from_state")])
             /\ run' = [run EXCEPT
                          !.status = IF Outcome(body, fp) = "raised"
                                     THEN "raised"
                                     ELSE IF run.pc = Len(RunSteps(run.wf))
                                     THEN "returned" ELSE "running",
                          !.pc = IF Outcome(body, fp) = "raised"
                                 THEN run.pc ELSE run.pc + 1]
             /\ caller' \in CallerOutcomes(run.wf, run'.status, state'.errors)
    /\ UNCHANGED <<now, calls, last, loaded, racevars, synthvars,
                 stagevars, agentvars, latervars>>

Next ==
    \/ \E wf \in Workflows, u \in Users, errs \in InitialErrors,
          mus \in InitialUpdates : StartRun(wf, u, errs, mus)
    \/ Step

Spec == Init /\ [][Next]_vars

-----------------------------------------------------------------------------
(* The risk assessment applied to every profile, plan and context *)

InitRiskInputs ==
    /\ InitRace /\ InitSynth /\ InitPipe /\ InitStage /\ InitAgent
    /\ InitStore
    /\ sweep = IdleSweep /\ chat = IdleChat /\ conns = NoConnections
    /\ opts = IdleOptions
    /\ \E p \in UserProfiles, w \in WorkoutPlans, c \in Contexts :
         risk = [IdleRisk EXCEPT !.pc = "call", !.user_profile = p,
                                 !.workout_plan = w, !.context = c]

ComprehensiveRiskAssessment ==
    /\ risk.pc = "call"
    /\ risk' = [risk EXCEPT
                  !.pc = "done",
                  !.result = _comprehensive_risk_assessment(
                                 risk.user_profile, risk.workout_plan,
                                 risk.context)]
    /\ UNCHANGED <<memvars, racevars, synthvars, pipevars, stagevars,
                 agentvars, sweepvars, chatvars, connvars, optvars>>

SpecRisk == InitRiskInputs /\ [][ComprehensiveRiskAssessment]_vars

-----------------------------------------------------------------------------
(* One run of check_at_risk_users *)

InitSweepInputs ==
    /\ InitRace /\ InitSynth /\ InitPipe /\ InitStage /\ InitAgent
    /\ InitStore
    /\ risk = IdleRisk /\ chat = IdleChat /\ conns = NoConnections
    /\ opts = IdleOptions
    /\ \E q \in BOOLEAN, rs \in ResolutionLists :
         sweep = [IdleSweep EXCEPT !.pc = "query", !.query_fails = q,
                                   !.at_risk = rs]

\* the awaited query: an exception is logged, an empty result returns
QueryAtRisk ==
    /\ sweep.pc = "query"
    /\ sweep' = [sweep EXCEPT
                   !.pc = IF sweep.query_fails \/ sweep.at_risk = <<>>
                          THEN "done" ELSE "loop",
                   !.i = 1]
    /\ UNCHANGED <<memvars, racevars, synthvars, pipevars, stagevars,
                 agentvars, riskvars, chatvars, connvars, optvars>>

\* one iteration of "for resolution in at_risk_resolutions"
TriggerIntervention ==
    /\ sweep.pc = "loop"
    /\ LET h == _trigger_intervention(sweep.at_risk[sweep.i])
       IN  sweep' = [sweep EXCEPT
                       !.processed = Append(sweep.processed,
                                            [resolution |-> sweep.i, handled |-> h]),
                       !.pc = IF h.raised \/ sweep.i = Len(sweep.at_risk)
                              THEN "done" ELSE "loop",
                       !.i = sweep.i + 1]
    /\ UNCHANGED <<memvars, racevars, synthvars, pipevars, stagevars,
                 agentvars, riskvars, chatvars, connvars, optvars>>

NextSweep == QueryAtRisk \/ TriggerIntervention

SpecSweep == InitSweepInputs /\ [][NextSweep]_vars

-----------------------------------------------------------------------------
(* respond calls of two users, interleaving at the awaited analysis *)

InitChatInputs ==
    /\ InitRace /\ InitSynth /\ InitPipe /\ InitStage /\ InitAgent
    /\ InitStore
    /\ risk = IdleRisk /\ sweep = IdleSweep /\ conns = NoConnections
    /\ opts = IdleOptions
    /\ \E h1 \in InitialLengths, h2 \in InitialLengths :
         chat = [IdleChat EXCEPT
                   !.lists = [i \in {j \in 1..2 : <<h1, h2>>[j] # 0}
                                |-> Prefill(<<h1, h2>>[i])],
                   !.history = [u \in ChatUsers |->
                                  IF u = "u1" THEN (IF h1 # 0 THEN 1 ELSE 0)
                                  ELSE (IF h2 # 0 THEN 2 ELSE 0)],
                   !.said = [u \in ChatUsers |->
                               Prefill(IF u = "u1" THEN h1 ELSE h2)]]

RespondBegin(k, user_id) ==
    /\ chat.n < MaxChatCalls
    /\ chat.call[k].pc # "awaiting"
    /\ chat' = respond_begin(chat, k, user_id, chat.n + 1)
    /\ UNCHANGED <<memvars, racevars, synthvars, pipevars, stagevars,
                 agentvars, riskvars, sweepvars, connvars, optvars>>

RespondEnd(k) ==
    /\ chat.call[k].pc = "awaiting"
    /\ chat' = respond_end(chat, k)
    /\ UNCHANGED <<memvars, racevars, synthvars, pipevars, stagevars,
                 agentvars, riskvars, sweepvars, connvars, optvars>>

RespondRaise(k) ==
    /\ chat.call[k].pc = "awaiting"
    /\ chat' = respond_raise(chat, k)
    /\ UNCHANGED <<memvars, racevars, synthvars, pipevars, stagevars,
                 agentvars, riskvars, sweepvars, connvars, optvars>>

NextChat ==
    \/ \E k \in Slots, u \in ChatUsers : RespondBegin(k, u)
    \/ \E k \in Slots : RespondEnd(k)
    \/ \E k \in Slots : RespondRaise(k)

SpecChat == InitChatInputs /\ [][NextChat]_vars

-----------------------------------------------------------------------------
(* The two steps on every state the earlier steps can leave *)

InitOptionInputs ==
    /\ InitRace /\ InitSynth /\ InitPipe /\ InitStage /\ InitAgent
    /\ InitStore
    /\ risk = IdleRisk /\ sweep = IdleSweep /\ chat = IdleChat
    /\ conns = NoConnections
    /\ \E cats \in SUBSET {"time_constraint", "monotony"},
          d \in {0, 3}, m \in {0, 3}, s \in BOOLEAN, r \in BOOLEAN :
         opts = [IdleOptions EXCEPT
                   !.pc = "generate_options", !.barrier_categories = cats,
                   !.days_inactive = d, !.missed_workouts = m,
                   !.stress = s, !.stress_agent_raises = r]

GenerateOptions ==
    /\ opts.pc = "generate_options"
    /\ opts' = [_generate_options_node(opts) EXCEPT !.pc = "autonomous_action"]
    /\ UNCHANGED <<memvars, racevars, synthvars, pipevars, stagevars,
                 agentvars, riskvars, sweepvars, chatvars, connvars>>

AutonomousAction ==
    /\ opts.pc = "autonomous_action"
    /\ opts' = [_autonomous_action_node(opts) EXCEPT !.pc = "finalize"]
    /\ UNCHANGED <<memvars, racevars, synthvars, pipevars, stagevars,
                 agentvars, riskvars, sweepvars, chatvars, connvars>>

NextOptions == GenerateOptions \/ AutonomousAction

SpecOptions == InitOptionInputs /\ [][NextOptions]_vars

-----------------------------------------------------------------------------
(* The registry under any sequence of connects and disconnects *)

InitConnections ==
    /\ InitRace /\ InitSynth /\ InitPipe /\ InitStage /\ InitAgent
    /\ InitStore
    /\ risk = IdleRisk /\ sweep = IdleSweep /\ chat = IdleChat
    /\ opts = IdleOptions
    /\ conns = NoConnections

AddConnection(sid, user_id) ==
    /\ conns' = add_connection(conns, sid, user_id)
    /\ UNCHANGED <<memvars, racevars, synthvars, pipevars, stagevars,
                 agentvars, riskvars, sweepvars, chatvars, optvars>>

RemoveConnection(sid) ==
    /\ conns' = remove_connection(conns, sid)
    /\ UNCHANGED <<memvars, racevars, synthvars, pipevars, stagevars,
                 agentvars, riskvars, sweepvars, chatvars, optvars>>

NextConnections ==
    \/ \E sid \in Sids, user_id \in ConnUsers : AddConnection(sid, user_id)
    \/ \E sid \in Sids : RemoveConnection(sid)

SpecConnections == InitConnections /\ [][NextConnections]_vars

-----------------------------------------------------------------------------
(* Properties of the memory store *)

SameTuple(a, b) ==
    /\ a.user_id = b.user_id
    /\ a.agent_name = b.agent_name
    /\ a.learning_type = b.learning_type

\* C4: the store holds at most one fact per (user, agent, learning_type),
\* after any sequence of persist_from_state calls.
C4_UniqueFacts ==
    \A i, j \in DOMAIN store : SameTuple(store[i], store[j]) => i = j

ValidUpdate(u) == u.agent_name # "" /\ u.learning_type # "" /\ u.content # ""

RacedOnSameTuple(r1, r2) ==
    /\ r1 # r2
    /\ runner[r1].pc = "done" /\ runner[r2].pc = "done"
    /\ Len(runner[r1].memory_updates) = 1 /\ Len(runner[r2].memory_updates) = 1
    /\ ValidUpdate(runner[r1].memory_updates[1])
    /\ ValidUpdate(runner[r2].memory_updates[1])
    /\ runner[r1].user_id = runner[r2].user_id
    /\ runner[r1].memory_updates[1].agent_name
         = runner[r2].memory_updates[1].agent_name
    /\ runner[r1].memory_updates[1].learning_type
         = runner[r2].memory_updates[1].learning_type

\* C5: when two calls for the same user persist a fact for the same
\* (agent, learning_type), the store ends with exactly one fact for the
\* tuple, holding the content of the call that committed later.
C5_LastWriteWins ==
    \A r1, r2 \in Runners :
        RacedOnSameTuple(r1, r2) /\ lastCommit = r2 =>
            LET u == runner[r2].memory_updates[1]
                found == Existing(store, runner[r2].user_id, u.agent_name,
                                  u.learning_type)
            IN  /\ Cardinality(found) = 1
                /\ \A i \in found : store[i].content = u.content

FactsFor(ld, agent_name, learning_type) ==
    SelectSeq(ld.all, LAMBDA d : /\ d.agent_name = agent_name
                                 /\ d.learning_type = learning_type)

\* C6: a persist_from_state(U, [{A, T, C, c}]) with a non-empty content C
\* on a store with no fact for (U, A, T) leaves load_to_state(U) returning exactly one fact for
\* (A, T), with content C and confidence min(1.0, c); the same call on a
\* store holding one fact for (U, A, T), of confidence c0, leaves it
\* returning exactly one fact, with content C and confidence
\* min(1.0, c0 + 0.1).
C6_RoundTrip ==
    [][\A u \in Users, x \in UpdateMenu :
         ValidUpdate(x) /\ PersistFromState(u, <<x>>) =>
           LET before == Existing(store, u, x.agent_name, x.learning_type)
               f == FactsFor(load_to_state(store', u, now', NoFilters),
                             x.agent_name, x.learning_type)
           IN  /\ before = {} =>
                    /\ Len(f) = 1
                    /\ f[1].content = x.content
                    /\ f[1].confidence = Min(ConfCap, x.confidence)
               /\ Cardinality(before) = 1 =>
                    /\ Len(f) = 1
                    /\ f[1].content = x.content
                    /\ \A i \in before :
                         f[1].confidence
                           = Min(ConfCap, store[i].confidence + ConfBump)]_vars

-----------------------------------------------------------------------------
(* Properties of synthesize_debate *)

Complete(v, K) == v.shape = "dict" /\ v.keys = K /\ v.nulls = {}

\* C7: whatever the generation call comes back with, synthesize_debate
\* returns a structure whose final_decision holds every required subfield
\* and whose debate_summary holds all three, none absent or null, and a
\* debate_summary missing from the generated object comes back as the three
\* "Summary unavailable" placeholders.
C7_SynthesisComplete ==
    synth.pc = "done" =>
        /\ synth.result.kind = "return"
        /\ Complete(synth.result.value.final_decision, FDKeys)
        /\ Complete(synth.result.value.debate_summary, DSKeys)
        /\ (synth.response.kind = "json"
              /\ synth.response.obj.debate_summary.shape = "absent"
              => synth.result.value.debate_summary.placeholder)

-----------------------------------------------------------------------------
(* Properties of the pipelines *)

IsPrefix(s, t) == Len(s) <= Len(t) /\ SubSeq(t, 1, Len(s)) = s

StepNamesOf(tr) == [i \in DOMAIN tr |-> tr[i].step]

Failures(tr) == {i \in DOMAIN tr : tr[i].outcome # "ok"}

Finished == run.status \in {"returned", "raised"}

\* a transition in which a step has run and failed
FailedStep ==
    /\ Len(trace') = Len(trace) + 1
    /\ trace'[Len(trace')].outcome # "ok"

\* C1: when a step fails, the state after it is the state before it with
\* exactly one entry appended to errors; no output field has been written.
C1_StepIsolation ==
    [][FailedStep =>
         /\ state' = [state EXCEPT !.errors = state'.errors]
         /\ Len(state'.errors) = Len(state.errors) + 1
         /\ IsPrefix(state.errors, state'.errors)]_vars

\* C2: run() always returns a state and never raises to its caller.
C2_RunNeverRaises == run.status # "raised"

\* C3: the errors list of a run's state always has the errors list of the
\* initial state as a prefix, whichever steps fail.
C3_ErrorsAppendOnly ==
    run.status \in {"running", "returned"} =>
        IsPrefix(run.init_errors, state.errors)

\* a run that was handed an error has returned with a failed step behind it
C3_Witness ==
    /\ run.status = "returned"
    /\ run.init_errors # <<>>
    /\ Failures(trace) # {}
    /\ Len(state.errors) > Len(run.init_errors)

\* C8: the step that calls synthesize_debate (coordinate in onboarding,
\* decide_action in the resolution review) always gets a structure back:
\* no exception of synthesize_debate reaches the step.
C8_SynthesisNeverRaises ==
    \A i \in DOMAIN trace :
        trace[i].step \in {"coordinate", "decide_action"} =>
            trace[i].outcome = "ok"

\* C9: a call of run() executes each declared step of the pipeline exactly
\* once, in declaration order.
C9_SequentialOrder ==
    Finished => StepNamesOf(trace) = DeclaredSteps(run.wf)

\* C10: a run executes every step after a failed one and reaches its
\* terminal step, and adds as many errors entries as steps have failed.
C10_ContinuePastFailures ==
    Finished =>
        /\ Len(trace) = Len(RunSteps(run.wf))
        /\ Len(state.errors) - Len(run.init_errors)
             = Cardinality(Failures(trace))

-----------------------------------------------------------------------------
(* Properties of load_to_state *)

AgentNames == {u.agent_name : u \in UpdateMenu}

LearningTypes == {u.learning_type : u \in UpdateMenu}

Expired(m, t) == m.expires_at # NoExpiry /\ m.expires_at <= t

\* the rows of a (user, agent, learning_type) that have not expired at t
LiveRows(db, user_id, agent_name, learning_type, t) ==
    {i \in Existing(db, user_id, agent_name, learning_type) :
        ~Expired(db[i], t)}

CountIn(view, agent_name, learning_type) ==
    Len(FactsFor([all |-> view], agent_name, learning_type))

\* the views a load returned: all, every by_type bucket, every by_agent bucket
Views(ld) ==
    {ld.all} \cup {ld.by_type[k] : k \in DOMAIN ld.by_type}
             \cup {ld.by_agent[k] : k \in DOMAIN ld.by_agent}

\* no view holds more facts of a tuple than the tuple has unexpired rows
NoExpiredInViews ==
    last.op = "load" =>
        \A a \in AgentNames, ty \in LearningTypes, v \in Views(loaded) :
            CountIn(v, a, ty)
              <= Cardinality(LiveRows(store, last.user_id, a, ty, now))

\* a step keeps every row, with its owner, tuple and expires_at
RowsKept ==
    \A i \in DOMAIN store :
        /\ i \in DOMAIN store'
        /\ SameTuple(store[i], store'[i])
        /\ store'[i].expires_at = store[i].expires_at

Qualifying(db, user_id, t, filters) ==
    {i \in DOMAIN db :
        /\ db[i].user_id = user_id
        /\ db[i].confidence >= ConfMin
        /\ ~Expired(db[i], t)
        /\ filters.learning_type \in {"", db[i].learning_type}
        /\ filters.agent_name \in {"", db[i].agent_name}}

\* C12: load_to_state(user) returns a stored fact of the user if and only
\* if its confidence is >= 0.5, it has not expired and it matches the
\* filter; each returned fact is once in all, once in by_type[its type] and
\* once in by_agent[its agent], and in no other bucket.
C12_LoadFilter ==
    last.op = "load" =>
        LET q == Qualifying(store, last.user_id, now, last.filters)
        IN  /\ \A k \in DOMAIN loaded.all :
                 \E i \in q : loaded.all[k] = memory_dict(store[i])
            /\ \A a \in AgentNames, ty \in LearningTypes :
                 LET n == Cardinality(
                            q \cap Existing(store, last.user_id, a, ty))
                 IN  /\ CountIn(loaded.all, a, ty) = n
                     /\ n > 0 =>
                          /\ ty \in DOMAIN loaded.by_type
                          /\ a \in DOMAIN loaded.by_agent
                          /\ CountIn(loaded.by_type[ty], a, ty) = n
                          /\ CountIn(loaded.by_agent[a], a, ty) = n
                     /\ \A k \in DOMAIN loaded.by_type \ {ty} :
                          CountIn(loaded.by_type[k], a, ty) = 0
                     /\ \A k \in DOMAIN loaded.by_agent \ {a} :
                          CountIn(loaded.by_agent[k], a, ty) = 0

\* a filtered load that returned a fact and left out one of low confidence
C12_Witness ==
    /\ last.op = "load"
    /\ last.filters # NoFilters
    /\ loaded.all # <<>>
    /\ \E i \in DOMAIN store :
         /\ store[i].user_id = last.user_id
         /\ store[i].confidence < ConfMin

-----------------------------------------------------------------------------
(* Properties of persist_from_state *)

\* C13: an update for a tuple whose one stored fact has expired resets the
\* fact as a fresh insert would (confidence as supplied, expires_at
\* recomputed from expires_after_days), and a following load_to_state
\* returns it when the supplied confidence is at least 0.5.
C13_ResetAfterExpiry ==
    [][\A u \in Users, x \in UpdateMenu :
         /\ ValidUpdate(x)
         /\ PersistFromState(u, <<x>>)
         /\ Cardinality(Existing(store, u, x.agent_name, x.learning_type)) = 1
         /\ \A i \in Existing(store, u, x.agent_name, x.learning_type) :
              Expired(store[i], now)
         => /\ \A i \in Existing(store', u, x.agent_name, x.learning_type) :
                 /\ store'[i].confidence = x.confidence
                 /\ store'[i].expires_at
                      = IF x.expires_after_days # 0
                        THEN now + x.expires_after_days ELSE NoExpiry
            /\ x.confidence >= ConfMin =>
                 FactsFor(load_to_state(store', u, now', NoFilters),
                          x.agent_name, x.learning_type) # <<>>]_vars

Capped == \A i \in DOMAIN store : store[i].confidence <= ConfCap

\* no row loses confidence, and a call with one update for a tuple with one
\* row sets the row's confidence to min(1.0, old + 0.1)
ConfidenceStep ==
    /\ \A i \in DOMAIN store :
         i \in DOMAIN store' /\ store'[i].confidence >= store[i].confidence
    /\ \A u \in Users, x \in UpdateMenu :
         /\ ValidUpdate(x)
         /\ PersistFromState(u, <<x>>)
         /\ Cardinality(Existing(store, u, x.agent_name, x.learning_type)) = 1
         => \A i \in Existing(store, u, x.agent_name, x.learning_type) :
              store'[i].confidence
                = Min(ConfCap, store[i].confidence + ConfBump)

\* C14: across any sequence of persist_from_state calls the confidence of a
\* stored fact never decreases and never exceeds 1.0, and an update of an
\* existing fact sets it to min(1.0, old + 0.1) whatever the update supplies.
C14_ConfidenceMonotoneCapped == []Capped /\ [][ConfidenceStep]_vars

-----------------------------------------------------------------------------
(* Properties of add_learning_to_state *)

StagedEntry(x, t) ==
    [agent_name |-> x.agent_name, learning_type |-> x.learning_type,
     content |-> x.content, confidence |-> x.confidence,
     expires_after_days |-> x.expires_after_days, timestamp |-> t]

\* one entry is appended at the end of memory_updates, nothing else of the
\* mapping changes, and the store and what a load returns stay as they are
StagedOnly ==
    \A x \in StageMenu :
        AddLearningToState(x) =>
            /\ bag'.memory_updates.kind = "list"
            /\ StagedUpdates(bag') = Append(StagedUpdates(bag),
                                            StagedEntry(x, now))
            /\ [bag' EXCEPT !.memory_updates = bag.memory_updates] = bag
            /\ store' = store
            /\ \A u \in Users, f \in LoadFilters :
                 load_to_state(store', u, now', f)
                   = load_to_state(store, u, now, f)

\* before the first persist_from_state has committed, a load returns nothing
NothingVisibleBeforePersist ==
    last.op = "load" /\ calls = 0 => loaded.all = <<>>

\* C15: add_learning_to_state appends exactly one entry at the end of
\* state.memory_updates (creating the list when absent or None), changes no
\* earlier entry and no other field, and does not touch the store; the fact
\* is not visible to load_to_state until persist_from_state has committed.
C15_StagedLearnings == [][StagedOnly]_vars /\ []NothingVisibleBeforePersist

\* two learnings are staged, one of them loadable once persisted, and a load
\* made before any persist has returned nothing
C15_Witness ==
    /\ Len(StagedUpdates(bag)) = 2
    /\ \E k \in DOMAIN StagedUpdates(bag) :
         /\ ValidUpdate(StagedUpdates(bag)[k])
         /\ StagedUpdates(bag)[k].confidence >= ConfMin
    /\ last.op = "load" /\ last.user_id = bag.user_id
    /\ calls = 0
    /\ loaded.all = <<>>

-----------------------------------------------------------------------------
(* Properties of the pipelines: the memory store *)

\* C16: within a run no entry of state.memory_updates is dropped or moved:
\* each step leaves the list it found as a prefix of the list it returns,
\* so that the persist_memory step flushes every entry, those of the
\* caller's initial state included.
C16_UpdatesAppendOnly ==
    [][run.status = "running" =>
         IsPrefix(state.memory_updates, state'.memory_updates)]_vars

RECURSIVE Sum(_, _)
Sum(tr, field) ==
    IF tr = <<>> THEN 0
    ELSE tr[1][field] + Sum(Tail(tr), field)

\* the step calls an agent, the plan generator or the coordinator
IsAgentStep(wf, step) ==
    \E i \in DOMAIN Body(wf, step).ops :
        /\ Body(wf, step).ops[i].k = "call"
        /\ Body(wf, step).ops[i].f
             \notin {"UserService.get_user_profile", "db.execute",
                     "AgentMemory.load_to_state",
                     "AgentMemory.persist_from_state"}

\* C17: a run that returns has read the memory store exactly once, before
\* any agent step, and has written it exactly once, after the last agent
\* step.
C17_StoreAtBoundaries ==
    run.status = "returned" =>
        /\ Sum(trace, "reads") = 1
        /\ Sum(trace, "writes") = 1
        /\ \A i, j \in DOMAIN trace :
             /\ trace[i].reads > 0 /\ IsAgentStep(run.wf, trace[j].step)
                  => i < j
             /\ trace[i].writes > 0 /\ IsAgentStep(run.wf, trace[j].step)
                  => j < i

-----------------------------------------------------------------------------
(* Properties of the agent methods *)

Called(fn) == agentcall.pc = "done" /\ agentcall.fn = fn

\* the generation call failed, or its text does not parse
GenerationUnusable(llm) ==
    llm.kind = "raise" \/ parse_json_text(llm.text).error

\* C18: when the generation call fails or returns unparsable text, analyze
\* returns the sentinel mapping with the keys error and raw_response; it
\* does not raise.
C18_AnalyzeSentinel ==
    Called("analyze") /\ GenerationUnusable(agentcall.llm) =>
        /\ agentcall.result.kind = "return"
        /\ agentcall.result.value.keys = {"error", "raw_response"}

\* the fence markers of the text removed
FencesRemoved(text) == SelectSeq(text, LAMBDA c : c \notin {"j", "f"})

\* the substring from the first "{" to the last "}", empty when there is none
Braced(text) ==
    LET open == {i \in DOMAIN text : text[i] = "{"}
        close == {i \in DOMAIN text : text[i] = "}"}
    IN  IF open = {} \/ close = {} THEN <<>>
        ELSE SubSeq(text, CHOOSE i \in open : \A j \in open : i <= j,
                          CHOOSE i \in close : \A j \in close : j <= i)

\* the two tiers: the raw text, then the braced part of the stripped text
TwoTier(text, stripped) ==
    IF IsValue(text) THEN Parsed(text)
    ELSE IF IsValue(Braced(stripped)) THEN Parsed(Braced(stripped))
    ELSE ErrorSentinel(text)

IsObject(text) == IsValue(text) /\ text[1] = "{"

\* the text is a JSON object wrapped in a fenced code block
IsFencedObject(text) ==
    /\ Len(text) >= 2
    /\ text[1] \in {"j", "f"} /\ text[Len(text)] = "f"
    /\ IsObject(SubSeq(text, 2, Len(text) - 1))

Unfenced(text) == SubSeq(text, 2, Len(text) - 1)

\* C19: _parse_json_response returns the parse of the raw text,
\* else the parse of the part from the first "{" to the last "}" of the text
\* without its fence markers, else the error sentinel; it never raises, and
\* a fenced JSON object yields that object.
C19_TwoTierParse ==
    Called("parse") =>
        /\ agentcall.result
             = AgentReturned(TwoTier(agentcall.llm.text,
                                     FencesRemoved(agentcall.llm.text)))
        /\ IsFencedObject(agentcall.llm.text) =>
             agentcall.result.value = Parsed(Unfenced(agentcall.llm.text))

\* C20: whatever the generation call comes back with, challenge() returns
\* a mapping whose stance is "support", "challenge" or "conditional".
C20_StanceDomain ==
    Called("challenge") =>
        /\ agentcall.result.kind = "return"
        /\ agentcall.result.value.stance
             \in {"support", "challenge", "conditional"}

-----------------------------------------------------------------------------
(* Properties of the risk assessment *)

\* the factors of the four categories, in the order the code joins them
EmittedFactors(value) ==
    value.user_risks \o value.context_risks \o value.exercise_risks
      \o value.interaction_risks

Assessed == risk.pc = "done" /\ risk.result.kind = "return"

\* C21: when the assessment emits at least one factor, overall_risk_score
\* is the arithmetic mean of the severities of all factors of the four
\* categories and total_risk_factors is their number.
C21_RiskAggregation ==
    Assessed /\ EmittedFactors(risk.result.value) # <<>> =>
        /\ FracEq(risk.result.value.overall_risk_score,
                  Frac(SumSeverity(EmittedFactors(risk.result.value)),
                       Len(EmittedFactors(risk.result.value))))
        /\ risk.result.value.total_risk_factors
             = Len(EmittedFactors(risk.result.value))

\* an injured beginner's plan holds an exercise that is high-risk and
\* conflicts with the injury: factors of all four categories are averaged
C21_Witness ==
    /\ Assessed
    /\ risk.result.value.user_risks # <<>>
    /\ risk.result.value.context_risks # <<>>
    /\ risk.result.value.exercise_risks # <<>>
    /\ risk.result.value.interaction_risks # <<>>
    /\ risk.result.value.total_risk_factors >= 4

\* C22: an assessment that emits no factor scores the floor 0.1 and counts
\* 0 factors; no input makes the score 0, negative or absent.
C22_RiskFloor ==
    risk.pc = "done" =>
        /\ risk.result.kind = "return"
        /\ FracPositive(risk.result.value.overall_risk_score)
        /\ EmittedFactors(risk.result.value) = <<>> =>
             /\ risk.result.value.overall_risk_score = RiskFloor
             /\ risk.result.value.total_risk_factors = 0

-----------------------------------------------------------------------------
(* Properties of the intervention sweep *)

\* the resolutions handled so far are the first ones of the list, in order
ProcessedInOrder ==
    /\ Len(sweep.processed) <= Len(sweep.at_risk)
    /\ \A k \in DOMAIN sweep.processed : sweep.processed[k].resolution = k

Failed(h) == ~h.committed \/ ~h.notified

\* C23: a failure of the pipeline, of the commit or of the notification for
\* one resolution does not abort the sweep: every resolution of the list is
\* handled, in list order.
C23_SweepIsolation ==
    /\ ProcessedInOrder
    /\ sweep.pc = "done" /\ ~sweep.query_fails =>
         Len(sweep.processed) = Len(sweep.at_risk)

\* the first resolution's commit failed and the second was still handled
C23_Witness ==
    /\ sweep.pc = "done"
    /\ Len(sweep.processed) = 2
    /\ sweep.at_risk[1] = "commit_fails"
    /\ Failed(sweep.processed[1].handled)
    /\ sweep.processed[2].handled.notified

-----------------------------------------------------------------------------
(* Properties of the callers *)

-----------------------------------------------------------------------------
(* Properties of the step sequences *)

\* the steps that fetch the profile
FetchSteps == {"fetch_profile", "fetch_data"}

\* C26: _user_profile is written by the first (fetch) step only: no later
\* step assigns it, so the final state holds what the first step stored.
C26_UserProfileWriteOnce ==
    /\ state.written["_user_profile"] \in {0, 1}
    /\ state.written["_user_profile"] = 1 =>
         RunSteps(run.wf)[1] \in FetchSteps

\* a daily-check run has gone through all its steps after the fetch step
\* stored the profile
C26_Witness ==
    /\ run.status = "returned" /\ run.wf = "daily_check"
    /\ Len(trace) = Len(RunSteps("daily_check"))
    /\ state.written["_user_profile"] = 1

\* C27: the steps run() executes are the steps _build_graph() declares, in
\* the same order; the daily-check run executes analyze_holistic between
\* analyze_emotions and detect_interventions.
C27_DeclaredGraphExecuted ==
    /\ \A i \in DOMAIN trace :
         /\ i <= Len(DeclaredSteps(run.wf))
         /\ trace[i].step = DeclaredSteps(run.wf)[i]
    /\ run.status = "returned" => Len(trace) = Len(DeclaredSteps(run.wf))

-----------------------------------------------------------------------------
(* Properties of the chat history *)

\* self.history[user_id], [] when the user has none
Stored(c, user_id) ==
    IF c.history[user_id] = 0 THEN <<>> ELSE c.lists[c.history[user_id]]

\* no respond call is suspended at the analysis
Quiet == \A k \in Slots : chat.call[k].pc # "awaiting"

\* C25: after any sequence of respond calls, those whose analysis raised
\* included, the stored history of a user holds at most 20 messages, the 20
\* most recent ones in their original order.
C25_ChatHistoryBounded ==
    Quiet =>
        \A u \in ChatUsers :
            /\ Len(Stored(chat, u)) <= KeepLast
            /\ Stored(chat, u) = LastN(chat.said[u], KeepLast)

Holds(xs, m) == \E i \in DOMAIN xs : xs[i] = m

\* the messages of the completed calls of a user are in the user's history
TurnsKept ==
    Quiet =>
        \A u \in ChatUsers :
            Len(chat.said[u]) <= KeepLast =>
                \A i \in DOMAIN chat.said[u] :
                    chat.said[u][i].id \in chat.completed =>
                        Holds(Stored(chat, u), chat.said[u][i])

\* a step of a call for one user leaves the other users' histories alone
OthersUntouched ==
    \A k \in Slots, u \in ChatUsers :
        (RespondBegin(k, u) \/ (chat.call[k].user_id = u
                                  /\ (RespondEnd(k) \/ RespondRaise(k)))) =>
            \A v \in ChatUsers \ {u} : Stored(chat', v) = Stored(chat, v)

\* C29: in every interleaving of respond calls for one user the final
\* history holds the user message and the reply of every completed call
\* (while the total is at most 20 messages), and a call for one user never
\* changes another user's history.
C29_ConcurrentTurnsKept == []TurnsKept /\ [][OthersUntouched]_vars

-----------------------------------------------------------------------------
(* Properties of the autonomous_action step *)

\* the recommended options that are flagged autonomous and of a type the
\* step acts on, in option order
Flagged(options) ==
    SelectSeq(options, LAMBDA o : o.autonomous /\ ActedOn(o))

\* C28: after the autonomous_action step every entry of
\* autonomous_actions_taken stands for a recommended option flagged
\* autonomous of type reduce_difficulty or mandatory_rest (one entry per
\* such option, in option order), every option not flagged autonomous is in
\* alternative_plans, and no option is in both.
C28_OnlyFlaggedApplied ==
    opts.pc = "finalize" /\ opts.recommended_actions.kind = "list" =>
        LET options == opts.recommended_actions.items
            taken == opts.autonomous_actions_taken.items
            plans == opts.alternative_plans.items
        IN  /\ opts.autonomous_actions_taken.kind = "list"
            /\ opts.alternative_plans.kind = "list"
            /\ Len(taken) = Len(Flagged(options))
            /\ \A i \in DOMAIN taken : taken[i] = ActionTaken(Flagged(options)[i])
            /\ \A i \in DOMAIN options :
                 ~options[i].autonomous =>
                     \E j \in DOMAIN plans : plans[j] = options[i]
            /\ \A j \in DOMAIN plans :
                 /\ \E i \in DOMAIN options : plans[j] = options[i]
                 /\ ~plans[j].autonomous

\* both autonomous options were applied and both suggestions handed on
C28_Witness ==
    /\ opts.pc = "finalize"
    /\ Len(opts.recommended_actions.items) = 4
    /\ Len(opts.autonomous_actions_taken.items) = 2
    /\ Len(opts.alternative_plans.items) = 2

-----------------------------------------------------------------------------
(* Properties of the connection registry *)

\* C30: after any sequence of add_connection and remove_connection calls a
\* sid is in sessions exactly when it is in the set of its session's user
\* and in no other user's set, no user maps to an empty set, and
\* is_user_online(u) holds exactly when some registered session belongs
\* to u.
C30_RegistryConsistent ==
    LET ac == conns.active_connections
        sessions == conns.sessions
    IN  /\ \A sid \in Sids :
             IF sid \in DOMAIN sessions
             THEN /\ sid \in get_user_sessions(conns, sessions[sid])
                  /\ \A u \in DOMAIN ac \ {sessions[sid]} : sid \notin ac[u]
             ELSE \A u \in DOMAIN ac : sid \notin ac[u]
        /\ \A u \in DOMAIN ac : ac[u] # {}
        /\ \A u \in ConnUsers :
             is_user_online(conns, u)
                 <=> (\E sid \in DOMAIN sessions : sessions[sid] = u)

====
